---- MODULE Spec2Model ----
(***************************************************************************)
(* debt_sim.py: amortising a debt while investing.                         *)
(*                                                                         *)
(* Money, rates and returns are exact rationals <<numerator, denominator>> *)
(* in lowest terms (denominator > 0); the model follows the arithmetic of  *)
(* the source without rounding.  A period is a business month end, named   *)
(* by a month number; a return series lies on consecutive months, and      *)
(* d + BMonthEnd(n = x), for a date d that is itself a business month end, *)
(* is the period d + x.  A pandas Series is a record                       *)
(* [index, values] of two sequences of equal length; Python position p is  *)
(* the element p + 1 of the sequence.  pandas.Series([v], index = idx)     *)
(* holds v on every label of idx, as in the pandas the source was written  *)
(* for.                                                                    *)
(***************************************************************************)
EXTENDS Integers, Sequences, FiniteSets, TLC

\* ------------------------------------------------------------ bounds
\* the while loops of payoff_nmonths and debt_schedule are followed for at
\* most MaxMonths iterations; a loop that needs more never returns
MaxMonths == 4
\* the longest return series (and contribution series) the client passes
MaxLen == 5

\* ------------------------------------------------------------ arithmetic
Abs(n) == IF n < 0 THEN -n ELSE n

RECURSIVE GCD(_, _)
GCD(a, b) == IF b = 0 THEN a ELSE GCD(b, a % b)

\* the rational n / d (d > 0) in lowest terms
Norm(n, d) == LET g == GCD(Abs(n), d) IN <<n \div g, d \div g>>

Num(n) == <<n, 1>>

Zero == Num(0)

One == Num(1)

\* a missing value (numpy.nan, the cell of a DataFrame no row supplies): no
\* number has denominator 0, and arithmetic on it gives it back
NaN == <<0, 0>>

IsNum(x) == x[2] # 0

Add(x, y) ==
    IF ~IsNum(x) \/ ~IsNum(y) THEN NaN
    ELSE LET g == GCD(x[2], y[2])
         IN  Norm(x[1] * (y[2] \div g) + y[1] * (x[2] \div g), (x[2] \div g) * y[2])

Neg(x) == <<-x[1], x[2]>>

Sub(x, y) == Add(x, Neg(y))

Mul(x, y) ==
    IF ~IsNum(x) \/ ~IsNum(y) THEN NaN
    ELSE LET a == Norm(x[1], y[2])
             b == Norm(y[1], x[2])
         IN  <<a[1] * b[1], a[2] * b[2]>>

Double(x) == Mul(Num(2), x)

DivBy(x, k) == Norm(x[1], x[2] * k)

Gt(x, y) == x[1] * y[2] > y[1] * x[2]

\* a local variable that has not been assigned yet
Unbound == <<1, 0>>

\* ------------------------------------------------------------ series
\* range(n) as a sequence: 0, 1, ..., n - 1
Range(n) == [i \in 1..n |-> i - 1]

\* s[a:] and s[:b] of a Python sequence
SliceFrom(s, a) == IF a >= Len(s) THEN <<>> ELSE SubSeq(s, a + 1, Len(s))

SliceTo(s, b) == IF b >= Len(s) THEN s ELSE SubSeq(s, 1, b)

Last(s) == s[Len(s)]

\* pandas.Series([v], index = idx): the single value on every label of idx
ConstSeries(v, idx) == [index |-> idx, values |-> [i \in 1..Len(idx) |-> v]]

\* series[p] = v by position p (an integer key on a date index is a position);
\* p = -1 is the last position
SetPos(series, p, v) ==
    LET k == IF p < 0 THEN Len(series.values) + 1 + p ELSE p + 1
    IN  [series EXCEPT !.values[k] = v]

\* series[p] by position p
GetPos(series, p) == series.values[p + 1]

\* series[label] by label; NaN where the label is absent
HasLabel(series, label) == \E k \in 1..Len(series.index) : series.index[k] = label

GetLabel(series, label) ==
    IF HasLabel(series, label)
    THEN series.values[CHOOSE k \in 1..Len(series.index) : series.index[k] = label]
    ELSE NaN

\* series[labels]: the sub-series on the given labels
Select(series, labels) ==
    [index |-> labels, values |-> [k \in 1..Len(labels) |-> GetLabel(series, labels[k])]]

\* a.append(b)
Append2(a, b) == [index |-> a.index \o b.index, values |-> a.values \o b.values]

Range2Set(s) == {s[k] : k \in 1..Len(s)}

RECURSIVE Sorted(_)
Sorted(S) ==
    IF S = {} THEN <<>>
    ELSE LET m == CHOOSE x \in S : \A y \in S : x <= y
         IN  <<m>> \o Sorted(S \ {m})

FillNa(v) == IF v = NaN THEN Zero ELSE v

\* ------------------------------------------------------------ inputs
Principals == {Num(60), Num(100)}

\* annual rates: 0 and 600% (a half per month)
Rates == {Zero, Num(6)}

Payments == {Num(40), Num(50), Num(75), Num(100)}

\* <<debt_amount, int_rate, debt_payment>>; the last one pays less than the
\* first month's interest (1000 at 24% a year accrues 20 a month)
Loans == (Principals \X Rates \X Payments) \cup {<<Num(1000), Norm(24, 100), Num(10)>>}

\* excess_inv: the amount invested less the debt payment; at -125 the amount
\* invested is negative
Excess == {Num(-125), Num(-40), Zero, Num(20)}

ReturnValues == {Zero, Norm(1, 2)}

SeqsOf(S, n) == [1..n -> S]

\* a return series of n consecutive periods, from period 3 on; its first return
\* may be missing (the return of the first period of a price series is NaN)
ReturnSeries ==
    UNION {{[index |-> [k \in 1..n |-> 3 + Range(n)[k]], values |-> <<f>> \o t] :
              f \in ReturnValues \cup {NaN}, t \in SeqsOf(ReturnValues, n - 1)} :
           n \in 1..MaxLen}

Contributions == {Zero, Num(10), Num(25)}

\* the contribution series a client passes to inv_schedule with the path p
PaymentSeries(p) ==
    LET n == Len(p.index)
    IN  {[index |-> p.index, values |-> h \o <<l>>] :
           h \in SeqsOf(Contributions, n - 1), l \in Contributions \cup {NaN}}

EmptySeries == [index |-> <<>>, values |-> <<>>]

EmptyFrame == [index |-> <<>>, payment |-> <<>>, loan_schedule |-> <<>>]

EmptyAgg == [index |-> <<>>, payment |-> <<>>, loan_schedule |-> <<>>, inv_value |-> <<>>]

Functions == {"payoff_nmonths", "debt_schedule", "inv_schedule",
              "conc_payout", "loans_first_payout"}

Comparators == {"conc_payout", "loans_first_payout"}

\* ------------------------------------------------------------ state
VARIABLES
    call,           \* the function the client is running (or ran last)
    pc,             \* where the running call stands
    return_series, debt_amount, int_rate, debt_payment, excess_inv,
    inv_payments,   \* the arguments the client passes
    pn,             \* the frame of payoff_nmonths
    ds,             \* the frame of debt_schedule
    isf,            \* the frame of inv_schedule
    n_months, dbt_sched, inv, inv_sched,    \* locals of the comparator
    outcome,        \* per function: "none", "returned" or the exception raised
    ret             \* per function: the value it returned

vars == <<call, pc, return_series, debt_amount, int_rate, debt_payment, excess_inv,
          inv_payments, pn, ds, isf, n_months, dbt_sched, inv, inv_sched, outcome, ret>>

argvars == <<return_series, debt_amount, int_rate, debt_payment, excess_inv, inv_payments>>

NoPN == [debt_amount |-> Zero, debt_payment |-> Zero, int_rate |-> Zero,
         debt |-> Zero, month |-> 0, new_bal |-> Unbound]

NoDS == [start_date |-> 0, debt_amount |-> Zero, int_rate |-> Zero, debt_payment |-> Zero,
         debt_schedule |-> <<>>, debt |-> Zero, month |-> 0, paid_in |-> <<>>,
         new_bal |-> Unbound]

NoIS == [inv_payments |-> EmptySeries, inv_path |-> EmptySeries,
         ret_d |-> EmptySeries, value |-> Zero, i |-> 0]

NoRet == [payoff_nmonths |-> 0, debt_schedule |-> EmptyFrame, inv_schedule |-> EmptySeries,
          conc_payout |-> EmptyAgg, loans_first_payout |-> EmptyAgg]

Init ==
    /\ call \in Functions
    /\ pc = "idle"
    /\ IF call = "inv_schedule"
       THEN debt_amount = Zero /\ int_rate = Zero /\ debt_payment = Zero
       ELSE \E loan \in Loans :
              debt_amount = loan[1] /\ int_rate = loan[2] /\ debt_payment = loan[3]
    /\ IF call \in Comparators THEN excess_inv \in Excess ELSE excess_inv = Zero
    /\ IF call \in Comparators \cup {"inv_schedule"}
       THEN return_series \in ReturnSeries
       ELSE return_series = EmptySeries
    /\ IF call = "inv_schedule"
       THEN inv_payments \in PaymentSeries(return_series)
       ELSE inv_payments = EmptySeries
    /\ pn = NoPN /\ ds = NoDS /\ isf = NoIS
    /\ n_months = 0 /\ dbt_sched = EmptyFrame /\ inv = EmptySeries /\ inv_sched = EmptySeries
    /\ outcome = [f \in Functions |-> "none"]
    /\ ret = NoRet

\* ------------------------------------------------------------ payoff_nmonths
\* the head of a call payoff_nmonths(da, dp, ir): debt = debt_amount; month = 0
EnterPayoffNmonths(da, dp, ir) ==
    /\ pn' = [debt_amount |-> da, debt_payment |-> dp, int_rate |-> ir,
              debt |-> da, month |-> 0, new_bal |-> Unbound]
    /\ pc' = "pn_while"

\* a slip: the balance accrues no interest
NewBalNoInterest(debt, int_rate_, payment) == Sub(debt, payment)

\* new_bal = debt * (1. + int_rate / 12.) - debt_payment
NewBal(debt, int_rate_, payment) ==
    Sub(Mul(debt, Add(One, DivBy(int_rate_, 12))), payment)

\* the client calls payoff_nmonths(debt_amount, debt_payment, int_rate)
CallPayoffNmonths ==
    /\ pc = "idle" /\ call = "payoff_nmonths"
    /\ EnterPayoffNmonths(debt_amount, debt_payment, int_rate)
    /\ UNCHANGED <<call, argvars, ds, isf, n_months, dbt_sched, inv, inv_sched, outcome, ret>>

\* one pass through the body of while debt > 0.
PayoffIter ==
    /\ pc = "pn_while"
    /\ Gt(pn.debt, Zero)
    /\ pn.month < MaxMonths
    /\ LET new_bal == NewBal(pn.debt, pn.int_rate, pn.debt_payment)
       IN  pn' = [pn EXCEPT !.new_bal = new_bal, !.debt = new_bal, !.month = @ + 1]
    /\ UNCHANGED <<call, pc, argvars, ds, isf, n_months, dbt_sched, inv, inv_sched,
                   outcome, ret>>

\* the loop ends: return month, to the client or to the comparator's assert
PayoffReturn ==
    /\ pc = "pn_while"
    /\ ~Gt(pn.debt, Zero)
    /\ IF call = "payoff_nmonths"
       THEN /\ pc' = "done"
            /\ ret' = [ret EXCEPT !.payoff_nmonths = pn.month]
            /\ outcome' = [outcome EXCEPT !["payoff_nmonths"] = "returned"]
            /\ UNCHANGED n_months
       ELSE /\ pc' = "assert"
            /\ n_months' = pn.month
            /\ UNCHANGED <<ret, outcome>>
    /\ UNCHANGED <<call, argvars, pn, ds, isf, dbt_sched, inv, inv_sched>>

\* ------------------------------------------------------------ debt_schedule
\* the head of a call debt_schedule(start_date, da, ir, dp)
EnterDebtSchedule(start_date, da, ir, dp) ==
    /\ ds' = [start_date |-> start_date, debt_amount |-> da, int_rate |-> ir,
              debt_payment |-> dp, debt_schedule |-> <<da>>, debt |-> da, month |-> 0,
              paid_in |-> <<Zero>>, new_bal |-> Unbound]
    /\ pc' = "ds_while"

\* the client calls debt_schedule(start_date, debt_amount, int_rate, debt_payment)
CallDebtSchedule ==
    /\ pc = "idle" /\ call = "debt_schedule"
    /\ EnterDebtSchedule(0, debt_amount, int_rate, debt_payment)
    /\ UNCHANGED <<call, argvars, pn, isf, n_months, dbt_sched, inv, inv_sched, outcome, ret>>

\* one pass through the body of while debt > 0.
ScheduleIter ==
    /\ pc = "ds_while"
    /\ Gt(ds.debt, Zero)
    /\ ds.month < MaxMonths
    /\ LET new_bal == NewBal(ds.debt, ds.int_rate, ds.debt_payment)
       IN  ds' = [ds EXCEPT !.new_bal = new_bal,
                            !.debt_schedule = Append(@, new_bal),
                            !.debt = new_bal,
                            !.month = @ + 1,
                            !.paid_in = Append(@, ds.debt_payment)]
    /\ UNCHANGED <<call, pc, argvars, pn, isf, n_months, dbt_sched, inv, inv_sched,
                   outcome, ret>>

\* a slip: the last balance is left as computed
ClipBalanceForgotten(sched) == sched

\* debt_schedule[-1] = 0.
ClipBalance(sched) == [sched EXCEPT ![Len(sched)] = Zero]

\* a slip: the last payment is left at the nominal payment
ClipPaymentForgotten(paid_in, payment, new_bal) == paid_in

\* paid_in[-1] = debt_payment + new_bal
ClipPayment(paid_in, payment, new_bal) ==
    [paid_in EXCEPT ![Len(paid_in)] = Add(payment, new_bal)]

\* index = map(lambda x: d + BMonthEnd(n = x), range(month + 1))
ScheduleIndex(d, month) == [k \in 1..(month + 1) |-> d + Range(month + 1)[k]]

\* the loop ends: the last row is clipped and the DataFrame returned, to the
\* client or to the comparator
ScheduleReturn ==
    /\ pc = "ds_while"
    /\ ~Gt(ds.debt, Zero)
    /\ LET sched == ClipBalance(ds.debt_schedule)
           paid  == ClipPayment(ds.paid_in, ds.debt_payment, ds.new_bal)
           frame == [index |-> ScheduleIndex(ds.start_date, ds.month),
                     payment |-> paid, loan_schedule |-> sched]
       IN  /\ ds' = [ds EXCEPT !.debt_schedule = sched, !.paid_in = paid]
           /\ IF call = "debt_schedule"
              THEN /\ pc' = "done"
                   /\ ret' = [ret EXCEPT !.debt_schedule = frame]
                   /\ outcome' = [outcome EXCEPT !["debt_schedule"] = "returned"]
                   /\ UNCHANGED dbt_sched
              ELSE /\ pc' = "contrib"
                   /\ dbt_sched' = frame
                   /\ UNCHANGED <<ret, outcome>>
    /\ UNCHANGED <<call, argvars, pn, isf, n_months, inv, inv_sched>>

\* ------------------------------------------------------------ inv_schedule
\* the head of a call inv_schedule(inv_payments, inv_path):
\* ret_d = {inv_path.index[0]: 0.}; value = 0.
EnterInvSchedule(payments, path) ==
    /\ isf' = [inv_payments |-> payments, inv_path |-> path,
               ret_d |-> [index |-> <<path.index[1]>>, values |-> <<Zero>>],
               value |-> Zero, i |-> 0]
    /\ pc' = "is_for"

\* a slip: the contribution is taken at the period of the return
NewValueSamePeriod(payments, path, i, date, value) ==
    Mul(Add(GetPos(payments, i + 1), value), Add(One, GetLabel(path, date)))

\* value = (inv_payments[i] + value) * (1 + inv_path[date])
NewValue(payments, path, i, date, value) ==
    Mul(Add(GetPos(payments, i), value), Add(One, GetLabel(path, date)))

\* the client calls inv_schedule(inv_payments, return_series)
CallInvSchedule ==
    /\ pc = "idle" /\ call = "inv_schedule"
    /\ EnterInvSchedule(inv_payments, return_series)
    /\ UNCHANGED <<call, argvars, pn, ds, n_months, dbt_sched, inv, inv_sched, outcome, ret>>

\* one pass of for i, date in enumerate(inv_path.index[1:])
InvIter ==
    /\ pc = "is_for"
    /\ isf.i < Len(SliceFrom(isf.inv_path.index, 1))
    /\ LET date  == SliceFrom(isf.inv_path.index, 1)[isf.i + 1]
           value == NewValue(isf.inv_payments, isf.inv_path, isf.i, date, isf.value)
       IN  isf' = [isf EXCEPT !.value = value,
                              !.ret_d = Append2(@, [index |-> <<date>>, values |-> <<value>>]),
                              !.i = @ + 1]
    /\ UNCHANGED <<call, pc, argvars, pn, ds, n_months, dbt_sched, inv, inv_sched,
                   outcome, ret>>

\* pandas.Series(ret_d): the values of the dict on its keys in increasing order
SeriesOfDict(d) == Select(d, Sorted(Range2Set(d.index)))

\* the loop ends: return pandas.Series(ret_d), to the client or to the comparator
InvReturn ==
    /\ pc = "is_for"
    /\ isf.i >= Len(SliceFrom(isf.inv_path.index, 1))
    /\ IF call = "inv_schedule"
       THEN /\ pc' = "done"
            /\ ret' = [ret EXCEPT !.inv_schedule = SeriesOfDict(isf.ret_d)]
            /\ outcome' = [outcome EXCEPT !["inv_schedule"] = "returned"]
            /\ UNCHANGED inv_sched
       ELSE /\ pc' = "merge"
            /\ inv_sched' = SeriesOfDict(isf.ret_d)
            /\ UNCHANGED <<ret, outcome>>
    /\ UNCHANGED <<call, argvars, pn, ds, isf, n_months, dbt_sched, inv>>

\* ------------------------------------------------------------ the comparators
\* n_months = payoff_nmonths(debt_amount, debt_payment, int_rate), in conc_payout
CallConcPayout ==
    /\ pc = "idle" /\ call = "conc_payout"
    /\ EnterPayoffNmonths(debt_amount, debt_payment, int_rate)
    /\ UNCHANGED <<call, argvars, ds, isf, n_months, dbt_sched, inv, inv_sched, outcome, ret>>

\* n_months = payoff_nmonths(debt_amount, debt_payment, int_rate), in
\* loans_first_payout
CallLoansFirstPayout ==
    /\ pc = "idle" /\ call = "loans_first_payout"
    /\ EnterPayoffNmonths(debt_amount, debt_payment, int_rate)
    /\ UNCHANGED <<call, argvars, ds, isf, n_months, dbt_sched, inv, inv_sched, outcome, ret>>

\* the condition of assert len(return_series) > n_months
EnoughPeriods(series, months) == Len(series.index) > months

\* a slip: the two variants' payments the wrong way round
SchedulePaymentSwapped(f, payment, excess) ==
    IF f = "conc_payout" THEN Add(Double(payment), excess) ELSE payment

\* the payment each comparator passes to debt_schedule
SchedulePayment(f, payment, excess) ==
    IF f = "conc_payout" THEN payment ELSE Add(Double(payment), excess)

\* the assert fails: AssertionError("not enough investment periods")
AssertFail ==
    /\ pc = "assert"
    /\ ~EnoughPeriods(return_series, n_months)
    /\ pc' = "done"
    /\ outcome' = [outcome EXCEPT ![call] = "AssertionError"]
    /\ UNCHANGED <<call, argvars, pn, ds, isf, n_months, dbt_sched, inv, inv_sched, ret>>

\* the assert passes: start_date = return_series.index[0];
\* dbt_sched = debt_schedule(start_date, debt_amount, int_rate, <payment>)
AssertPass ==
    /\ pc = "assert"
    /\ EnoughPeriods(return_series, n_months)
    /\ EnterDebtSchedule(return_series.index[1], debt_amount, int_rate,
                         SchedulePayment(call, debt_payment, excess_inv))
    /\ UNCHANGED <<call, argvars, pn, isf, n_months, dbt_sched, inv, inv_sched, outcome, ret>>

\* a slip: the remainder of the last debt payment is left out
ConcContributionsNoRemainder(series, sched, payment, excess) ==
    Append2(ConstSeries(Add(payment, excess), SliceTo(series.index, Len(sched.index))),
            ConstSeries(Add(Add(payment, excess), payment),
                        SliceFrom(series.index, Len(sched.payment))))

\* conc_payout: inv_a, inv_a[-1], inv_b and inv_payment = inv_a.append(inv_b)
ConcContributions(series, sched, payment, excess) ==
    LET dbt_pymnts == sched.payment
        inv_a == SetPos(ConstSeries(Add(payment, excess),
                                    SliceTo(series.index, Len(sched.index))),
                        -1,
                        Add(Add(Sub(payment, Last(dbt_pymnts)), excess), payment))
        inv_b == ConstSeries(Add(Add(payment, excess), payment),
                             SliceFrom(series.index, Len(dbt_pymnts)))
    IN  Append2(inv_a, inv_b)

\* a slip: the first contribution as in conc_payout
LoansFirstContributionsAsConc(series, sched, payment, excess) ==
    SetPos(ConstSeries(Add(Double(payment), excess),
                       SliceFrom(series.index, Len(sched.index) - 1)),
           0,
           Add(Add(Sub(payment, Last(sched.payment)), excess), payment))

\* loans_first_payout: inv and inv[0]
LoansFirstContributions(series, sched, payment, excess) ==
    LET dbt_pymnts == sched.payment
    IN  SetPos(ConstSeries(Add(Double(payment), excess),
                           SliceFrom(series.index, Len(sched.index) - 1)),
               0,
               Add(Sub(payment, Last(dbt_pymnts)), excess))

\* conc_payout builds its contributions and calls
\* inv_schedule(inv_payment, return_series)
ConcInvest ==
    /\ pc = "contrib" /\ call = "conc_payout"
    /\ LET inv_payment == ConcContributions(return_series, dbt_sched, debt_payment, excess_inv)
       IN  /\ inv' = inv_payment
           /\ EnterInvSchedule(inv_payment, return_series)
    /\ UNCHANGED <<call, argvars, pn, ds, n_months, dbt_sched, inv_sched, outcome, ret>>

\* loans_first_payout: the schedule outlasts the return series, inv is empty
\* and inv[0] = ... raises IndexError
LoansFirstInvestFail ==
    /\ pc = "contrib" /\ call = "loans_first_payout"
    /\ SliceFrom(return_series.index, Len(dbt_sched.index) - 1) = <<>>
    /\ pc' = "done"
    /\ outcome' = [outcome EXCEPT ![call] = "IndexError"]
    /\ UNCHANGED <<call, argvars, pn, ds, isf, n_months, dbt_sched, inv, inv_sched, ret>>

\* loans_first_payout builds its contributions and calls
\* inv_schedule(inv, return_series[inv.index])
LoansFirstInvest ==
    /\ pc = "contrib" /\ call = "loans_first_payout"
    /\ SliceFrom(return_series.index, Len(dbt_sched.index) - 1) # <<>>
    /\ LET c == LoansFirstContributions(return_series, dbt_sched, debt_payment, excess_inv)
       IN  /\ inv' = c
           /\ EnterInvSchedule(c, Select(return_series, c.index))
    /\ UNCHANGED <<call, argvars, pn, ds, n_months, dbt_sched, inv_sched, outcome, ret>>

\* pandas.concat([dbt_sched, inv_sched], axis = 1).fillna(0.): one row per
\* period of either, absent cells 0
Concat(sched, values) ==
    LET idx == Sorted(Range2Set(sched.index) \cup Range2Set(values.index))
        col(series) == [k \in 1..Len(idx) |-> FillNa(GetLabel(series, idx[k]))]
    IN  [index |-> idx,
         payment |-> col([index |-> sched.index, values |-> sched.payment]),
         loan_schedule |-> col([index |-> sched.index, values |-> sched.loan_schedule]),
         inv_value |-> col(values)]

\* inv_sched.name = 'inv_value'; agg = concat(...).fillna(0.); return agg
Merge ==
    /\ pc = "merge"
    /\ pc' = "done"
    /\ ret' = [ret EXCEPT ![call] = Concat(dbt_sched, inv_sched)]
    /\ outcome' = [outcome EXCEPT ![call] = "returned"]
    /\ UNCHANGED <<call, argvars, pn, ds, isf, n_months, dbt_sched, inv, inv_sched>>

\* the function a client runs next to f on the same arguments
Sibling(f) ==
    CASE f = "payoff_nmonths" -> "debt_schedule"
      [] f = "debt_schedule" -> "payoff_nmonths"
      [] f = "conc_payout" -> "loans_first_payout"
      [] f = "loans_first_payout" -> "conc_payout"
      [] OTHER -> f

\* a call is over: the client runs the sibling function on the same arguments
NextCall ==
    /\ pc = "done"
    /\ Sibling(call) # call
    /\ outcome[Sibling(call)] = "none"
    /\ call' = Sibling(call)
    /\ pc' = "idle"
    /\ UNCHANGED <<argvars, pn, ds, isf, n_months, dbt_sched, inv, inv_sched, outcome, ret>>

Next ==
    \/ CallPayoffNmonths
    \/ PayoffIter
    \/ PayoffReturn
    \/ CallDebtSchedule
    \/ ScheduleIter
    \/ ScheduleReturn
    \/ CallInvSchedule
    \/ InvIter
    \/ InvReturn
    \/ CallConcPayout
    \/ CallLoansFirstPayout
    \/ AssertFail
    \/ AssertPass
    \/ ConcInvest
    \/ LoansFirstInvestFail
    \/ LoansFirstInvest
    \/ Merge
    \/ NextCall

Spec == Init /\ [][Next]_vars

\* ------------------------------------------------------------ properties
Ge(x, y) == x[1] * y[2] >= y[1] * x[2]

RECURSIVE SumSeq(_)
SumSeq(s) == IF s = <<>> THEN Zero ELSE Add(s[1], SumSeq(Tail(s)))

\* a valid loan: principal > 0, annual_rate >= 0 and a payment above the first
\* month's interest
ValidLoan ==
    /\ Gt(debt_amount, Zero)
    /\ Ge(int_rate, Zero)
    /\ Gt(debt_payment, Mul(debt_amount, DivBy(int_rate, 12)))

Returned(f) == outcome[f] = "returned"

\* the monthly interest on a balance
Interest(balance) == Mul(balance, DivBy(int_rate, 12))

\* C1: for a valid loan debt_schedule terminates (after m months the balance
\* is at most principal - m * (payment - first interest), so the loop leaves
\* within principal / (payment - first interest) passes, and the iteration
\* bound never cuts it), and the schedule it returns starts with the row
\* (balance = principal, payment = 0), ends with balance exactly 0 and has
\* payoff_nmonths(principal, payment, annual_rate) + 1 rows
C1_ScheduleShape ==
    ValidLoan =>
      /\ (call = "debt_schedule" /\ pc = "ds_while") =>
           /\ Ge(Sub(debt_amount,
                     Mul(Num(ds.month), Sub(debt_payment, Interest(debt_amount)))),
                 ds.debt)
           /\ Gt(ds.debt, Zero) => ds.month < MaxMonths
      /\ Returned("debt_schedule") =>
           LET t == ret.debt_schedule
           IN  /\ t.loan_schedule[1] = debt_amount
               /\ t.payment[1] = Zero
               /\ Last(t.loan_schedule) = Zero
               /\ Len(t.index) = Len(t.loan_schedule)
               /\ Len(t.index) = Len(t.payment)
               /\ Returned("payoff_nmonths") => Len(t.index) = ret.payoff_nmonths + 1

\* a valid loan of three months or more has been scheduled and its horizon estimated
C1_Witness ==
    /\ ValidLoan
    /\ Returned("debt_schedule")
    /\ Returned("payoff_nmonths")
    /\ ret.payoff_nmonths >= 3
    /\ Gt(int_rate, Zero)

\* C2: when payment <= principal * annual_rate / 12, payoff_nmonths and
\* debt_schedule stop with an error before the first balance update: no
\* balance is ever computed for such a loan
C2_InvalidTermsRejected ==
    (~ValidLoan /\ call \in {"payoff_nmonths", "debt_schedule"}) =>
      /\ pn.new_bal = Unbound
      /\ ds.new_bal = Unbound

\* C8: for a valid loan the payments of the schedule add up to the principal
\* plus the interest accrued, the interest of period k >= 1 being the monthly
\* rate times the balance at the end of period k - 1
C8_PaymentsReconcile ==
    (ValidLoan /\ Returned("debt_schedule")) =>
      LET t == ret.debt_schedule
          n == Len(t.index) - 1
          accrued == SumSeq([k \in 1..n |-> Interest(t.loan_schedule[k])])
      IN  SumSeq(t.payment) = Add(debt_amount, accrued)

\* a schedule of three months or more at a positive rate
C8_Witness ==
    /\ ValidLoan
    /\ Returned("debt_schedule")
    /\ Len(ret.debt_schedule.index) >= 4
    /\ Gt(int_rate, Zero)
    /\ Gt(debt_payment, Last(ret.debt_schedule.payment))

\* the rows 1 .. n - 1 of a schedule of n + 1 rows record the nominal payment,
\* and the last one pays off the balance of the row before it with its interest
LastPaymentRetires(t, final_balance) ==
    LET n == Len(t.index) - 1
    IN  /\ Last(t.payment) = Add(debt_payment, final_balance)
        /\ Last(t.payment) = Add(t.loan_schedule[n], Interest(t.loan_schedule[n]))
        /\ \A k \in 2..n : t.payment[k] = debt_payment

\* C9 as stated: the last payment is payment + final_negative_balance, retires
\* the remaining balance with its last interest, and is less than the nominal
\* payment; every other row after period 0 records the nominal payment
C9_LastPaymentLess ==
    (ValidLoan /\ call = "debt_schedule" /\ pc = "done") =>
      /\ LastPaymentRetires(ret.debt_schedule, ds.new_bal)
      /\ Gt(debt_payment, Last(ret.debt_schedule.payment))

\* C9 as amended: the last payment is at most the nominal payment (it is the
\* nominal payment when that retires the balance exactly)
C9_LastPaymentAtMost ==
    (ValidLoan /\ call = "debt_schedule" /\ pc = "done") =>
      /\ LastPaymentRetires(ret.debt_schedule, ds.new_bal)
      /\ Ge(debt_payment, Last(ret.debt_schedule.payment))
      /\ Gt(Last(ret.debt_schedule.payment), Zero)

\* a schedule of three months or more whose last payment is clipped
C9_Witness ==
    /\ ValidLoan
    /\ call = "debt_schedule" /\ pc = "done"
    /\ Len(ret.debt_schedule.index) >= 4
    /\ Gt(debt_payment, Last(ret.debt_schedule.payment))
    /\ Gt(Zero, ds.new_bal)

\* the number of periods that retire the debt at a payment: the first m with
\* balance <= 0 (MaxMonths + 1 when there is none within the iteration bound)
RECURSIVE PeriodsToRetire(_, _, _)
PeriodsToRetire(balance, payment, m) ==
    IF ~Gt(balance, Zero) THEN m
    ELSE IF m >= MaxMonths THEN MaxMonths + 1
    ELSE PeriodsToRetire(Sub(Add(balance, Interest(balance)), payment), payment, m + 1)

\* the payment at which each variant retires the debt
OwnPayment(f) ==
    IF f = "conc_payout" THEN debt_payment ELSE Add(Double(debt_payment), excess_inv)

\* C3: a comparator fails, with nothing returned, exactly
\* when the return series has no more entries than the number of periods
\* that retire the debt at the variant's own payment; otherwise it returns a
\* merged table
C3_OwnPaymentDecides ==
    (call \in Comparators /\ pc = "done") =>
      LET short == Len(return_series.index)
                     <= PeriodsToRetire(debt_amount, OwnPayment(call), 0)
      IN  /\ short <=> outcome[call] = "AssertionError"
          /\ ~short <=> Returned(call)
          /\ outcome[call] = "AssertionError" => ret[call] = EmptyAgg

\* the first period at which the loan_schedule column of a table is 0
FirstZero(t) ==
    t.index[CHOOSE k \in 1..Len(t.index) :
              /\ t.loan_schedule[k] = Zero
              /\ \A j \in 1..(k - 1) : t.loan_schedule[j] # Zero]

\* C5 as stated: whenever both comparators return a table on the same
\* arguments, the first period with loan_schedule = 0 in the table of
\* loans_first_payout is no later than the first such period in the table of
\* conc_payout
C5_DebtFirstNeverLater ==
    (Returned("conc_payout") /\ Returned("loans_first_payout")) =>
      FirstZero(ret.loans_first_payout) <= FirstZero(ret.conc_payout)

\* C5 as amended: it is so when annual_rate >= 0 and excess_inv >= -debt_payment,
\* that is when the payment of the debt-first variant is at least the nominal
\* payment
C5_DebtFirstNeverLaterIfInvesting ==
    (/\ Ge(int_rate, Zero)
     /\ Ge(excess_inv, Neg(debt_payment))
     /\ Returned("conc_payout") /\ Returned("loans_first_payout")) =>
      FirstZero(ret.loans_first_payout) <= FirstZero(ret.conc_payout)

\* both tables are there, and debt-first is clear of the debt strictly earlier,
\* two months or more into the series
C5_Witness ==
    /\ Ge(excess_inv, Neg(debt_payment))
    /\ Returned("conc_payout") /\ Returned("loans_first_payout")
    /\ FirstZero(ret.loans_first_payout) < FirstZero(ret.conc_payout)
    /\ FirstZero(ret.loans_first_payout) >= return_series.index[1] + 2

\* the comparator has built its contribution series (and not yet handed over
\* to the other comparator)
Contributed(f) == call = f /\ pc \in {"is_for", "merge", "done"} /\ outcome[f] # "AssertionError"

\* C10: for a valid loan with debt_payment > 0 and excess_inv >= 0, no entry of
\* the contribution series of either comparator is negative
C10_NoWithdrawal ==
    (/\ ValidLoan /\ Gt(debt_payment, Zero) /\ Ge(excess_inv, Zero)
     /\ \E f \in Comparators : Contributed(f)) =>
      \A k \in 1..Len(inv.values) : Ge(inv.values[k], Zero)

\* the recurrence of the compounding schedule on the periods after the first
\* one of the path: value[t] = (contribution[t - 1] + value[t - 1]) * (1 + return[t]),
\* contributions taken by position
Compounds(values, contributions, path) ==
    \A k \in 2..Len(path.index) :
      values[k] = Mul(Add(contributions[k - 1], values[k - 1]), Add(One, path.values[k]))

\* C4: inv_schedule(contributions, returns), of equal length L >= 1, returns a
\* series of length L on the index of returns with value[0] = 0 and
\* value[t] = (contributions[t - 1] + value[t - 1]) * (1 + returns[t]) for t in
\* 1 .. L - 1; returns[0] and contributions[L - 1] are not read (a missing
\* value there leaves every value a number); with zero returns value[t] is
\* the sum of contributions[0 .. t - 1], with zero contributions it is 0
C4_Compounding ==
    (call = "inv_schedule" /\ pc = "done") =>
      LET v == ret.inv_schedule
          L == Len(return_series.index)
          c == inv_payments.values
          r == return_series.values
      IN  /\ v.index = return_series.index
          /\ Len(v.values) = L
          /\ v.values[1] = Zero
          /\ Compounds(v.values, c, return_series)
          /\ \A k \in 1..L : IsNum(v.values[k])
          /\ (\A k \in 2..L : r[k] = Zero) =>
               \A k \in 1..L : v.values[k] = SumSeq(SubSeq(c, 1, k - 1))
          /\ (\A k \in 1..(L - 1) : c[k] = Zero) =>
               \A k \in 1..L : v.values[k] = Zero

\* a schedule of three periods or more with a missing first return, a missing
\* last contribution, a return that is not zero and distinct contributions
C4_Witness ==
    /\ call = "inv_schedule" /\ pc = "done"
    /\ Len(return_series.index) >= 3
    /\ return_series.values[1] = NaN
    /\ Last(inv_payments.values) = NaN
    /\ return_series.values[3] # Zero
    /\ inv_payments.values[1] # inv_payments.values[2]
    /\ Gt(Last(ret.inv_schedule.values), Zero)

\* C6: in conc_payout, with n the position of the last row of the schedule at
\* the nominal payment, the contributions cover every position of the return
\* series and are debt_payment + excess_inv at 0 .. n - 1,
\* debt_payment - last_debt_payment + excess_inv + debt_payment at n and
\* 2 * debt_payment + excess_inv after n; inv_schedule runs over the whole
\* return series
C6_ConcContributions ==
    Contributed("conc_payout") =>
      LET n == Len(dbt_sched.index) - 1
          last_debt_payment == Last(dbt_sched.payment)
      IN  /\ ds.debt_payment = debt_payment
          /\ inv.index = return_series.index
          /\ \A k \in 1..Len(inv.index) :
               inv.values[k] =
                 IF k - 1 < n THEN Add(debt_payment, excess_inv)
                 ELSE IF k - 1 = n
                 THEN Add(Add(Sub(debt_payment, last_debt_payment), excess_inv), debt_payment)
                 ELSE Add(Double(debt_payment), excess_inv)
          /\ isf.inv_payments = inv
          /\ isf.inv_path = return_series

\* conc_payout has contributed before, at and after the last debt period, the
\* last debt payment being clipped
C6_Witness ==
    /\ Contributed("conc_payout")
    /\ Len(dbt_sched.index) >= 3
    /\ Len(return_series.index) > Len(dbt_sched.index)
    /\ Gt(debt_payment, Last(dbt_sched.payment))
    /\ excess_inv # Zero

\* C7: in loans_first_payout, with m the position of the last row of the
\* schedule at 2 * debt_payment + excess_inv, compounding runs over the
\* positions m .. of the return series only: inv_value is 0 at 0 .. m, the
\* contribution at m is debt_payment - last_debt_payment + excess_inv, after m
\* it is 2 * debt_payment + excess_inv, and for t > m
\* inv_value[t] = (contribution[t - 1] + inv_value[t - 1]) * (1 + return[t])
C7_DebtFirstCompounding ==
    (call = "loans_first_payout" /\ pc = "done" /\ Returned("loans_first_payout")) =>
      LET m == Len(dbt_sched.index) - 1
          last_debt_payment == Last(dbt_sched.payment)
          agg == ret.loans_first_payout
          L == Len(return_series.index)
          contribution(t) == GetLabel(inv, return_series.index[t + 1])
      IN  /\ ds.debt_payment = Add(Double(debt_payment), excess_inv)
          /\ agg.index = return_series.index
          /\ isf.inv_path.index = SliceFrom(return_series.index, m)
          /\ inv.index = SliceFrom(return_series.index, m)
          /\ \A t \in 0..m : agg.inv_value[t + 1] = Zero
          /\ contribution(m) = Add(Sub(debt_payment, last_debt_payment), excess_inv)
          /\ \A t \in (m + 1)..(L - 1) :
               /\ contribution(t) = Add(Double(debt_payment), excess_inv)
               /\ agg.inv_value[t + 1] =
                    Mul(Add(contribution(t - 1), agg.inv_value[t]),
                        Add(One, return_series.values[t + 1]))

\* debt-first has paid off in two months or more and invested for two periods
\* or more at a return that is not zero
C7_Witness ==
    /\ call = "loans_first_payout" /\ pc = "done" /\ Returned("loans_first_payout")
    /\ Len(dbt_sched.index) >= 3
    /\ Len(return_series.index) >= Len(dbt_sched.index) + 2
    /\ Last(return_series.values) # Zero
    /\ Last(ret.loans_first_payout.inv_value) # Zero
====
